---- MODULE Spec2Model ----
(***************************************************************************)
(* A model of git-bigstore (src/bigstore/bigstore.py): the clean/smudge    *)
(* filters, the upload ledger kept in git notes (refs/notes/bigstore) and  *)
(* the push / pull / fetch commands of two clones that share one origin    *)
(* and the storage backends.                                               *)
(*                                                                         *)
(* Five specifications share the module:                                   *)
(*   Spec        the sync engine: push, pull and fetch of two clones       *)
(*   SpecBatch   the sync engine on a tree of two tracked files            *)
(*   SpecFilter  filter_clean followed by filter_smudge on one input       *)
(*   SpecMerge   the cat_sort_uniq merge of three entry logs               *)
(*   SpecPlace   filter_clean writing an object while another process      *)
(*               reads the object's path                                   *)
(***************************************************************************)
EXTENDS Integers, Sequences, FiniteSets, TLC

VARIABLES
    \* ---- sync engine (Spec) ----
    commits,      \* the notes commits ever created: id -> [anc, notes, hn]
    head,         \* refs/notes/bigstore of origin (0) and of each clone; 0 = no ref
    backend,      \* backend name -> (hexdigest -> bytes held)
    store,        \* clone -> (<<hash name, hexdigest>> -> bytes): .git/bigstore/objects
    wt,           \* clone -> path -> bytes of the working tree file
    index,        \* clone -> path -> bytes of the staged blob
    staged,       \* clone -> paths that pull has passed to git add
    pc,           \* clone -> where its running command stands
    todo,         \* clone -> tracked entries the command's loop has still to visit
    calls,        \* clone -> backend calls made by its current command, in order
    outcome,      \* clone -> sha -> what the current command did for that entry
    opsLeft,      \* clone -> commands it may still start
    compress,     \* clone -> whether its attribute rule is filter=bigstore-compress
    backendCfg,   \* clone -> bigstore.backend of its .bigstore file
    defaultHash,  \* clone -> bigstore.hash_function of its git config
    tree,         \* the tracked entries of HEAD's tree, as pathnames() yields them
    \* ---- filters (SpecFilter) ----
    fIn,          \* the bytes given to filter_clean on stdin
    fMid,         \* what filter_clean wrote to stdout
    fOut,         \* what filter_smudge wrote to stdout
    fAgain,       \* what a second filter_clean wrote, given fMid on stdin
    fStore,       \* the object store the two filters work on
    fHash,        \* the default hash function the filters run with
    fpc,          \* "start", "cleaned", "smudged" or "crashed"
    \* ---- ledger merge (SpecMerge) ----
    mA, mB, mC,   \* three entry logs
    mOut,         \* the merges computed from them
    mpc,          \* "start" or "merged"
    \* ---- object placement (SpecPlace) ----
    oIn,          \* the content filter_clean is given
    oTmp,         \* the bytes of its temporary file
    oPath,        \* the file at object_filename(...): [exists, bytes]
    oWritten,     \* whether a clean has finished writing that file before
    oSeen,        \* what the reading process last found at that path
    oOut,         \* what the finished runs of filter_clean wrote to stdout
    oLeft,        \* runs of filter_clean still to start
    opc           \* where the running filter_clean stands

syncVars   == <<commits, head, backend, store, wt, index, staged, pc, todo,
                calls, outcome, opsLeft, compress, backendCfg, defaultHash, tree>>
filterVars == <<fIn, fMid, fOut, fAgain, fStore, fHash, fpc>>
mergeVars  == <<mA, mB, mC, mOut, mpc>>
placeVars  == <<oIn, oTmp, oPath, oWritten, oSeen, oOut, oLeft, opc>>
vars       == <<syncVars, filterVars, mergeVars, placeVars>>

(***************************************************************************)
(* Bounds of the model.                                                    *)
(***************************************************************************)
\* longest input given to the filters in SpecFilter
MaxLen == 6
\* commands each clone may start in Spec
MaxOps == 2
\* largest clock reading a clone may stamp an entry with; the smallest is 9
MaxTime == 10
\* most lines in one of the three logs of SpecMerge
MaxLog == 3
\* longest content cleaned in SpecPlace
MaxObj == 3
\* runs of filter_clean on that content in SpecPlace
MaxCleans == 2
\* commands each clone may start in SpecBatch
BatchOps == 1

(***************************************************************************)
(* Bytes.  A file is a sequence of tokens; a token stands for a byte       *)
(* string that the program never looks into.                               *)
(***************************************************************************)
NL    == 0      \* "\n"
MAGIC == 1      \* the word "bigstore"
TXT   == 2      \* any other text without a newline
BZ    == 5      \* the header that opens a bz2 stream

Algs == {"sha1", "md5"}

\* the name of a hash function as it is written into a pointer record
AlgTok(alg) == IF alg = "sha1" THEN 3 ELSE 4

RECURSIVE Enc(_)
\* an injective numbering of byte strings over the tokens 0..7
Enc(bytes) ==
    IF bytes = <<>> THEN 0
    ELSE (Head(bytes) + 1) + 9 * Enc(Tail(bytes))

\* hash_function.hexdigest(): a collision-free digest, as one token
HexDigest(alg, bytes) == 100 + 2 * Enc(bytes) + (IF alg = "sha1" THEN 0 ELSE 1)

RECURSIVE Lines(_)
\* iteration over a binary stream: lines that keep their "\n"; the last
\* line may lack it
Lines(bytes) ==
    IF bytes = <<>> THEN <<>>
    ELSE LET nl == { i \in 1..Len(bytes) : bytes[i] = NL } IN
         IF nl = {} THEN <<bytes>>
         ELSE LET k == CHOOSE i \in nl : \A j \in nl : i <= j IN
              <<SubSeq(bytes, 1, k)>> \o Lines(SubSeq(bytes, k + 1, Len(bytes)))

\* s[:-1]
StripLast(s) == IF s = <<>> THEN <<>> ELSE SubSeq(s, 1, Len(s) - 1)

\* the three lines filter_clean writes
PointerRecord(alg, hexdigest) == <<MAGIC, NL, AlgTok(alg), NL, hexdigest, NL>>

\* object_filename(hash_function_name, hexdigest): the key of a stored object
object_filename(hash_function_name, hexdigest) == <<hash_function_name, hexdigest>>

\* a clean filter that hashes and stores whatever it is given
filter_clean_no_passthrough(input, st, alg) ==
    IF input = <<>>
    THEN [ok |-> FALSE, out |-> <<>>, store |-> st]
    ELSE LET hexdigest == HexDigest(alg, input)
             key == object_filename(<<AlgTok(alg)>>, <<hexdigest>>)
         IN  [ok |-> TRUE, out |-> PointerRecord(alg, hexdigest),
              store |-> (key :> input) @@ st]

\* filter_clean on `input` with object store `st` and default hash `alg`:
\* ok = FALSE when next(stdin) raises StopIteration on an empty stream
filter_clean(input, st, alg) ==
    IF input = <<>>
    THEN [ok |-> FALSE, out |-> <<>>, store |-> st]
    ELSE IF Lines(input)[1] = <<MAGIC, NL>>
    THEN [ok |-> TRUE, out |-> input, store |-> st]
    ELSE LET hexdigest == HexDigest(alg, input)
             key == object_filename(<<AlgTok(alg)>>, <<hexdigest>>)
         IN  [ok |-> TRUE, out |-> PointerRecord(alg, hexdigest),
              store |-> (key :> input) @@ st]

\* a smudge filter that gives up when the object is not in the store
filter_smudge_strict(input, st) ==
    IF input = <<>>
    THEN [ok |-> FALSE, out |-> <<>>]
    ELSE LET ls == Lines(input) IN
         IF ls[1] = <<MAGIC, NL>>
         THEN IF Len(ls) < 3
              THEN [ok |-> FALSE, out |-> <<>>]
              ELSE LET source_filename ==
                           object_filename(StripLast(ls[2]), StripLast(ls[3]))
                   IN  IF source_filename \in DOMAIN st
                       THEN [ok |-> TRUE, out |-> st[source_filename]]
                       ELSE [ok |-> FALSE, out |-> <<>>]
         ELSE [ok |-> TRUE, out |-> input]

\* filter_smudge on `input` with object store `st`:
\* ok = FALSE when one of the three next(stdin) raises StopIteration
filter_smudge(input, st) ==
    IF input = <<>>
    THEN [ok |-> FALSE, out |-> <<>>]
    ELSE LET ls == Lines(input) IN
         IF ls[1] = <<MAGIC, NL>>
         THEN IF Len(ls) < 3
              THEN [ok |-> FALSE, out |-> <<>>]
              ELSE LET source_filename ==
                           object_filename(StripLast(ls[2]), StripLast(ls[3]))
                   IN  IF source_filename \in DOMAIN st
                       THEN [ok |-> TRUE, out |-> st[source_filename]]
                       ELSE [ok |-> TRUE, out |-> ls[1] \o ls[2] \o ls[3]]
         ELSE [ok |-> TRUE, out |-> input]

(***************************************************************************)
(* Ledger lines.  A note is a sequence of lines; an entry line is          *)
(* "timestamp \t action \t backend \t author", and `git notes append`      *)
(* separates what it appends from the older text by a blank line.          *)
(***************************************************************************)
Backends == {"s3", "gs"}
Authors  == {"alice", "bob"}
Actions  == {"upload", "upload-compressed"}
Times    == 9..MaxTime

BlankLine == [ts |-> 0, action |-> "", backend |-> "", author |-> ""]

Entry(ts, action, backend_name, author) ==
    [ts |-> ts, action |-> action, backend |-> backend_name, author |-> author]

Range(s) == { s[i] : i \in 1..Len(s) }

\* the entries of a note: its lines that are not blank
EntrySet(note) == Range(note) \ {BlankLine}

RECURSIVE Digits(_)
\* the decimal digits of a timestamp, as "{}".format writes them
Digits(n) == IF n < 10 THEN <<n>> ELSE Digits(n \div 10) \o <<n % 10>>

\* the bytes of a line, as numbers that compare the way its characters do:
\* a tab sorts below every digit, "upload\t" below "upload-compressed\t"
LineKey(l) ==
    IF l = BlankLine THEN <<>>
    ELSE [i \in 1..Len(Digits(l.ts)) |-> Digits(l.ts)[i] + 1]
         \o <<0, IF l.action = "upload" THEN 1 ELSE 2,
              0, IF l.backend = "gs" THEN 1 ELSE 2,
              0, IF l.author = "alice" THEN 1 ELSE 2>>

RECURSIVE SeqLess(_, _)
\* strcmp(a, b) < 0
SeqLess(a, b) ==
    IF b = <<>> THEN FALSE
    ELSE IF a = <<>> THEN TRUE
    ELSE IF Head(a) # Head(b) THEN Head(a) < Head(b)
    ELSE SeqLess(Tail(a), Tail(b))

LineLess(a, b) == SeqLess(LineKey(a), LineKey(b))

RECURSIVE SortLines(_)
\* string_list_sort + string_list_remove_duplicates on a set of lines
SortLines(S) ==
    IF S = {} THEN <<>>
    ELSE LET m == CHOOSE x \in S : \A y \in S \ {x} : LineLess(x, y)
         IN  <<m>> \o SortLines(S \ {m})

\* a merge that keeps the incoming note only (the "theirs" strategy)
cat_sort_uniq_theirs(cur, new) == SortLines(EntrySet(new))

\* git notes merge -s cat_sort_uniq on one conflicting note: the lines of
\* both notes, empty lines removed, sorted, duplicates removed
cat_sort_uniq(cur, new) == SortLines(EntrySet(cur) \cup EntrySet(new))

(***************************************************************************)
(* SpecFilter: filter_clean, then filter_smudge on what it wrote.          *)
(***************************************************************************)
RECURSIVE SeqsUpTo(_, _)
SeqsUpTo(S, n) ==
    IF n = 0 THEN {<<>>}
    ELSE LET shorter == SeqsUpTo(S, n - 1) IN
         shorter \cup { Append(s, x) : s \in { t \in shorter : Len(t) = n - 1 }, x \in S }

Inputs == SeqsUpTo({NL, MAGIC, TXT}, MaxLen)

SyncIdle ==
    /\ commits = <<>> /\ head = <<>> /\ backend = <<>> /\ store = <<>>
    /\ wt = <<>> /\ index = <<>> /\ staged = <<>> /\ pc = <<>> /\ todo = <<>>
    /\ calls = <<>> /\ outcome = <<>> /\ opsLeft = <<>> /\ compress = <<>>
    /\ backendCfg = <<>> /\ defaultHash = <<>> /\ tree = <<>>

FilterIdle ==
    /\ fIn = <<>> /\ fMid = <<>> /\ fOut = <<>> /\ fAgain = <<>> /\ fStore = <<>>
    /\ fHash = "sha1" /\ fpc = "idle"

MergeIdle ==
    /\ mA = <<>> /\ mB = <<>> /\ mC = <<>> /\ mOut = <<>> /\ mpc = "idle"

PlaceIdle ==
    /\ oIn = <<>> /\ oTmp = <<>> /\ oPath = <<>> /\ oWritten = FALSE
    /\ oSeen = <<>> /\ oOut = <<>> /\ oLeft = 0 /\ opc = "idle"

InitFilter ==
    /\ fIn \in Inputs
    /\ fHash \in Algs
    /\ fMid = <<>> /\ fOut = <<>> /\ fAgain = <<>> /\ fStore = <<>>
    /\ fpc = "start"
    /\ SyncIdle /\ MergeIdle /\ PlaceIdle

filter_clean_step ==
    /\ fpc = "start"
    /\ LET r == filter_clean(fIn, fStore, fHash) IN
         /\ fMid' = r.out
         /\ fStore' = r.store
         /\ fpc' = IF r.ok THEN "cleaned" ELSE "crashed"
    /\ UNCHANGED <<fIn, fOut, fAgain, fHash, syncVars, mergeVars, placeVars>>

filter_smudge_step ==
    /\ fpc = "cleaned"
    /\ LET r == filter_smudge(fMid, fStore) IN
         /\ fOut' = r.out
         /\ fpc' = IF r.ok THEN "smudged" ELSE "crashed"
    /\ UNCHANGED <<fIn, fMid, fAgain, fStore, fHash, syncVars, mergeVars, placeVars>>

\* filter_clean once more, on what the first run wrote; the default hash
\* function may have been reconfigured in between
filter_clean_again_step ==
    /\ fpc = "cleaned"
    /\ \E alg \in Algs :
         LET r == filter_clean(fMid, fStore, alg) IN
         /\ fAgain' = r.out
         /\ fStore' = r.store
         /\ fpc' = IF r.ok THEN "recleaned" ELSE "crashed_again"
    /\ UNCHANGED <<fIn, fMid, fOut, fHash, syncVars, mergeVars, placeVars>>

NextFilter == filter_clean_step \/ filter_smudge_step \/ filter_clean_again_step

SpecFilter == InitFilter /\ [][NextFilter]_vars

(***************************************************************************)
(* SpecMerge: the merge of three entry logs, in every grouping.            *)
(***************************************************************************)
MergeLines ==
    { Entry(9, "upload", "s3", "alice"),
      Entry(10, "upload", "s3", "alice"),
      Entry(9, "upload-compressed", "s3", "bob"),
      BlankLine }

\* a note as appends and merges leave it: blank lines only between entries
WellFormedLog(s) ==
    \/ s = <<>>
    \/ /\ s[1] # BlankLine
       /\ s[Len(s)] # BlankLine
       /\ \A i \in 1..(Len(s) - 1) : ~(s[i] = BlankLine /\ s[i + 1] = BlankLine)

Logs == { s \in SeqsUpTo(MergeLines, MaxLog) : WellFormedLog(s) }

InitMerge ==
    /\ mA \in Logs /\ mB \in Logs /\ mC \in Logs
    /\ mOut = <<>>
    /\ mpc = "start"
    /\ SyncIdle /\ FilterIdle /\ PlaceIdle

merge_step ==
    /\ mpc = "start"
    /\ mOut' = [ab   |-> cat_sort_uniq(mA, mB),
                ba   |-> cat_sort_uniq(mB, mA),
                a_bc |-> cat_sort_uniq(mA, cat_sort_uniq(mB, mC)),
                ab_c |-> cat_sort_uniq(cat_sort_uniq(mA, mB), mC),
                aa   |-> cat_sort_uniq(mA, mA)]
    /\ mpc' = "merged"
    /\ UNCHANGED <<mA, mB, mC, syncVars, filterVars, placeVars>>

NextMerge == merge_step

SpecMerge == InitMerge /\ [][NextMerge]_vars

(***************************************************************************)
(* SpecPlace: filter_clean storing an object, step by step, while another  *)
(* process (filter_smudge, push or pull) opens the object's path.  The     *)
(* same content is cleaned MaxCleans times, as `git add` and `git status`  *)
(* do with a file that was touched.                                        *)
(***************************************************************************)
NoFile == [exists |-> FALSE, bytes |-> <<>>]

\* contents that filter_clean stores: not empty, no marker line first
Contents ==
    { b \in SeqsUpTo({NL, MAGIC, TXT}, MaxObj) : b # <<>> /\ Lines(b)[1] # <<MAGIC, NL>> }

InitPlace ==
    /\ oIn \in Contents
    /\ oTmp = <<>> /\ oPath = NoFile /\ oWritten = FALSE
    /\ oSeen = NoFile /\ oOut = <<>>
    /\ oLeft = MaxCleans
    /\ opc = "ready"
    /\ SyncIdle /\ FilterIdle /\ MergeIdle

\* the stream is hashed and written to the temporary file; mkdir_p
place_hash ==
    /\ opc \in {"ready", "done", "killed"} /\ oLeft > 0
    /\ oTmp' = oIn
    /\ oLeft' = oLeft - 1
    /\ opc' = "hashed"
    /\ UNCHANGED <<oIn, oPath, oWritten, oSeen, oOut, syncVars, filterVars, mergeVars>>

\* shutil.copy opens object_filename(...) for writing, which creates the
\* file or empties the one that is there
place_open ==
    /\ opc = "hashed"
    /\ oPath' = [exists |-> TRUE, bytes |-> <<>>]
    /\ opc' = "copying"
    /\ UNCHANGED <<oIn, oTmp, oWritten, oSeen, oOut, oLeft, syncVars, filterVars, mergeVars>>

\* shutil.copy writes the next block of the temporary file
place_write ==
    /\ opc = "copying" /\ Len(oPath.bytes) < Len(oTmp)
    /\ oPath' = [oPath EXCEPT !.bytes = Append(@, oTmp[Len(@) + 1])]
    /\ UNCHANGED <<oIn, oTmp, oWritten, oSeen, oOut, oLeft, opc, syncVars, filterVars, mergeVars>>

\* the copy is complete; the pointer record is written to stdout
place_finish ==
    /\ opc = "copying" /\ Len(oPath.bytes) = Len(oTmp)
    /\ oOut' = Append(oOut, filter_clean(oIn, <<>>, "sha1").out)
    /\ oWritten' = TRUE
    /\ opc' = "done"
    /\ UNCHANGED <<oIn, oTmp, oPath, oSeen, oLeft, syncVars, filterVars, mergeVars>>

\* the process is terminated
place_kill ==
    /\ opc \in {"hashed", "copying"}
    /\ opc' = "killed"
    /\ UNCHANGED <<oIn, oTmp, oPath, oWritten, oSeen, oOut, oLeft, syncVars, filterVars, mergeVars>>

\* another process opens the object's path and reads the file
place_read ==
    /\ oSeen' = oPath
    /\ oSeen' # oSeen
    /\ UNCHANGED <<oIn, oTmp, oPath, oWritten, oOut, oLeft, opc, syncVars, filterVars, mergeVars>>

NextPlace ==
    place_hash \/ place_open \/ place_write \/ place_finish \/ place_kill \/ place_read

SpecPlace == InitPlace /\ [][NextPlace]_vars

(***************************************************************************)
(* The sync engine.  Two clones of one repository, their origin and the    *)
(* storage backends.  Every clone has run `git bigstore init`, so it has a *)
(* notes ref of its own; origin has none until the first publish.          *)
(***************************************************************************)
Clones == {1, 2}
Origin == 0

\* user.name <user.email> of a clone
AuthorOf(c) == IF c = 1 THEN "alice" ELSE "bob"

\* the contents of the large files of the repository
BigContent == <<TXT, NL, TXT>>
SmallContent == <<TXT>>

\* what g().ls_tree("HEAD") can list: the blob of each tracked path is the
\* pointer record that filter_clean wrote when the file was added
Tracked ==
    << [sha |-> "sha_big", path |-> "big.bin",
        blob |-> PointerRecord("sha1", HexDigest("sha1", BigContent))],
       [sha |-> "sha_small", path |-> "small.bin",
        blob |-> PointerRecord("sha1", HexDigest("sha1", SmallContent))] >>

Shas  == { Tracked[i].sha : i \in 1..Len(Tracked) }
Paths == { Tracked[i].path : i \in 1..Len(Tracked) }

\* the content a tracked pointer stands for
ContentOf(sha) == IF sha = "sha_big" THEN BigContent ELSE SmallContent

NoNotes == [x \in Shas |-> <<>>]

\* the notes tree a ref points to; a missing ref has no notes
Notes(r) == IF head[r] = 0 THEN NoNotes ELSE commits[head[r]].notes

\* the ancestors of a notes commit, itself included
Anc(id) == IF id = 0 THEN {} ELSE commits[id].anc

\* g().notes("--ref=bigstore", "show", sha).split('\n'); no note: no entries
notes_show(c, sha) == Notes(c)[sha]

\* git merge-base --all
MergeBases(l, r) ==
    LET common == Anc(l) \cap Anc(r) IN
    { b \in common : \A d \in common \ {b} : b \notin Anc(d) }

BaseChoices(l, r) == IF MergeBases(l, r) = {} THEN {0} ELSE MergeBases(l, r)

\* a merge that resolves a conflicting note in favour of the remote one
MergedNote_theirs(bn, ln, rn) ==
    IF rn = bn THEN ln ELSE rn

\* one note of a three-way notes merge with strategy cat_sort_uniq
MergedNote(bn, ln, rn) ==
    IF rn = bn THEN ln
    ELSE IF ln = rn THEN ln
    ELSE IF ln = bn THEN rn
    ELSE cat_sort_uniq(ln, rn)

NewCommit(parents, notes, hn) ==
    Append(commits, [anc |-> parents \cup {Len(commits) + 1}, notes |-> notes, hn |-> hn])

\* a fetch straight into the local ref: the remote notes replace the local ones
pull_metadata_force(c, repository, b) ==
    IF head[repository] = 0
    THEN IF head[c] # 0 /\ commits[head[c]].hn
         THEN UNCHANGED <<commits, head>>
         ELSE /\ commits' = NewCommit(Anc(head[c]), Notes(c), TRUE)
              /\ head' = [head EXCEPT ![c] = Len(commits) + 1]
    ELSE /\ head' = [head EXCEPT ![c] = head[repository]]
         /\ UNCHANGED commits

\* a merge that does nothing when the fetch fails
pull_metadata_no_add(c, repository, b) ==
    IF head[repository] = 0 \/ head[c] = 0
    THEN UNCHANGED <<commits, head>>
    ELSE IF head[repository] \in Anc(head[c])
    THEN UNCHANGED <<commits, head>>
    ELSE /\ head' = [head EXCEPT ![c] = head[repository]]
         /\ UNCHANGED commits

\* pull_metadata(repository) in clone c; b is the merge base git picks
pull_metadata(c, repository, b) ==
    LET l == head[c]
        r == head[repository]
    IN  IF r = 0
        THEN \* the fetch fails: git notes add HEAD -m bigstore
             IF l # 0 /\ commits[l].hn
             THEN UNCHANGED <<commits, head>>
             ELSE /\ commits' = NewCommit(Anc(l), Notes(c), TRUE)
                  /\ head' = [head EXCEPT ![c] = Len(commits) + 1]
        ELSE IF r \in Anc(l)
        THEN UNCHANGED <<commits, head>>
        ELSE IF l = 0 \/ l \in Anc(r)
        THEN /\ head' = [head EXCEPT ![c] = r]
             /\ UNCHANGED commits
        ELSE LET bn == IF b = 0 THEN NoNotes ELSE commits[b].notes
                 merged == [x \in Shas |->
                               MergedNote(bn[x], commits[l].notes[x], commits[r].notes[x])]
             IN  /\ commits' = NewCommit(Anc(l) \cup Anc(r), merged,
                                         commits[l].hn \/ commits[r].hn)
                 /\ head' = [head EXCEPT ![c] = Len(commits) + 1]

\* g().notes("--ref=bigstore", "append", sha, "-m", line)
notes_append(c, sha, line) ==
    LET old == Notes(c)[sha]
        new == IF old = <<>> THEN <<line>> ELSE old \o <<BlankLine, line>>
    IN  /\ commits' = NewCommit(Anc(head[c]), [Notes(c) EXCEPT ![sha] = new],
                                head[c] # 0 /\ commits[head[c]].hn)
        /\ head' = [head EXCEPT ![c] = Len(commits) + 1]

\* g().push("origin", "refs/notes/bigstore") is accepted: a fast-forward
PublishAccepted(c) ==
    /\ head[c] # 0
    /\ head[Origin] = 0 \/ head[Origin] \in Anc(head[c])

RECURSIVE SplitNL(_)
\* s.split('\n')
SplitNL(bytes) ==
    LET nl == { i \in 1..Len(bytes) : bytes[i] = NL } IN
    IF nl = {} THEN <<bytes>>
    ELSE LET k == CHOOSE i \in nl : \A j \in nl : i <= j IN
         <<SubSeq(bytes, 1, k - 1)>> \o SplitNL(SubSeq(bytes, k + 1, Len(bytes)))

\* g().show(sha).split('\n'): the command's output loses its last newline
ShowParts(blob) ==
    SplitNL(IF blob # <<>> /\ blob[Len(blob)] = NL THEN StripLast(blob) ELSE blob)

\* the three-way unpacking succeeds and firstline == 'bigstore'
IsPointer(blob) == Len(ShowParts(blob)) = 3 /\ ShowParts(blob)[1] = <<MAGIC>>

\* is_bigstore_file(filename)
is_bigstore_file(c, filename) ==
    Len(wt[c][filename]) >= 2 /\ SubSeq(wt[c][filename], 1, 2) = <<MAGIC, NL>>

\* bz2 compression of a whole stream
Bz2Compress(bytes) == <<BZ>> \o bytes

\* bz2 decompression; ok = FALSE when the data is no bz2 stream
Bz2Decompress(bytes) ==
    IF bytes = <<>> THEN [ok |-> TRUE, out |-> <<>>]
    ELSE IF Head(bytes) = BZ THEN [ok |-> TRUE, out |-> Tail(bytes)]
    ELSE [ok |-> FALSE, out |-> <<>>]

Call(op, hexdigest, data, res) ==
    [op |-> op, dg |-> hexdigest, data |-> data, res |-> res]

\* pathnames(), restricted by the patterns of the command line
Selected(matched) == SelectSeq(tree, LAMBDA e : e.path \in matched)

InitOutcome == [x \in Shas |-> "none"]

RECURSIVE CleanAll(_)
\* the object store after `git add` ran filter_clean on each of the files
CleanAll(entries) ==
    IF entries = <<>> THEN <<>>
    ELSE filter_clean(ContentOf(Head(entries).sha), CleanAll(Tail(entries)), "sha1").store

\* the files of the clones: clone 1 added the tracked files; clone 2 has
\* their objects too (has2) or only the pointers it checked out
InitFiles(has2) ==
    /\ store = [c \in Clones |-> IF c = 1 \/ has2 THEN CleanAll(tree) ELSE <<>>]
    /\ wt = [c \in Clones |-> [p \in Paths |->
            LET e == CHOOSE t \in Range(Tracked) : t.path = p IN
            IF e \notin Range(tree) THEN <<>>
            ELSE IF c = 1 \/ has2 THEN ContentOf(e.sha) ELSE e.blob]]
    /\ index = [c \in Clones |-> [p \in Paths |->
            LET e == CHOOSE t \in Range(Tracked) : t.path = p IN
            IF e \in Range(tree) THEN e.blob ELSE <<>>]]
    /\ staged = [c \in Clones |-> {}]

InitCommands ==
    /\ pc = [c \in Clones |-> "idle"]
    /\ todo = [c \in Clones |-> <<>>]
    /\ calls = [c \in Clones |-> <<>>]
    /\ outcome = [c \in Clones |-> InitOutcome]
    /\ opsLeft \in {[c \in Clones |-> MaxOps], [c \in Clones |-> BatchOps]}

\* one tracked file; both clones have run `git bigstore init`
Init ==
    /\ commits = << [anc |-> {1}, notes |-> NoNotes, hn |-> TRUE],
                    [anc |-> {2}, notes |-> NoNotes, hn |-> TRUE] >>
    /\ head = [r \in {Origin} \cup Clones |-> r]
    /\ backend = [b \in Backends |-> <<>>]
    /\ compress \in [Clones -> BOOLEAN]
    /\ backendCfg \in { f \in [Clones -> Backends] : f[1] = "s3" }
    /\ defaultHash \in { f \in [Clones -> Algs] : f[1] = "sha1" }
    /\ tree = <<Tracked[1]>>
    /\ \E has2 \in BOOLEAN : InitFiles(has2)
    /\ InitCommands /\ opsLeft = [c \in Clones |-> MaxOps]
    /\ FilterIdle /\ MergeIdle /\ PlaceIdle

\* two tracked files; clone 2 is a fresh checkout whose filters were
\* configured by hand: it has the pointers only and no notes ref yet
InitBatch ==
    /\ commits = << [anc |-> {1}, notes |-> NoNotes, hn |-> TRUE] >>
    /\ head = [r \in {Origin} \cup Clones |-> IF r = 1 THEN 1 ELSE 0]
    /\ backend = [b \in Backends |-> <<>>]
    /\ compress = [c \in Clones |-> FALSE]
    /\ backendCfg = [c \in Clones |-> "s3"]
    /\ defaultHash = [c \in Clones |-> "sha1"]
    /\ tree = Tracked
    /\ InitFiles(FALSE)
    /\ InitCommands /\ opsLeft = [c \in Clones |-> BatchOps]
    /\ FilterIdle /\ MergeIdle /\ PlaceIdle

config == <<compress, backendCfg, defaultHash, tree>>
files  == <<store, wt, index, staged>>
others == <<filterVars, mergeVars, placeVars>>

CanStart(c) == pc[c] \in {"idle", "crashed"} /\ opsLeft[c] > 0

\* the first lines of push, pull and fetch: the merge from origin
Begin(c, to, matched) ==
    /\ CanStart(c)
    /\ \E b \in BaseChoices(head[c], head[Origin]) : pull_metadata(c, Origin, b)
    /\ pc' = [pc EXCEPT ![c] = to]
    /\ todo' = [todo EXCEPT ![c] = Selected(matched)]
    /\ calls' = [calls EXCEPT ![c] = <<>>]
    /\ outcome' = [outcome EXCEPT ![c] = InitOutcome]
    /\ opsLeft' = [opsLeft EXCEPT ![c] = @ - 1]
    /\ UNCHANGED <<backend, files, config, others>>

\* an entry scan that forgets the compressed kind of upload
HasUploadFor_plain_only(entries, name) ==
    \E i \in 1..Len(entries) :
        /\ entries[i] # BlankLine
        /\ entries[i].action = "upload"
        /\ entries[i].backend = name

\* the entry scan of push: an upload to the active backend is on record
HasUploadFor(entries, name) ==
    \E i \in 1..Len(entries) :
        /\ entries[i] # BlankLine
        /\ entries[i].action \in Actions
        /\ entries[i].backend = name

\* an action that does not look at the rule
ActionFor_always_upload(c) == "upload"

\* the action push records, and pull assumes for an object without a note
ActionFor(c) == IF compress[c] THEN "upload-compressed" ELSE "upload"

\* backend.exists(hexdigest) of the backend called `name`
backend_exists(name, hexdigest) == hexdigest \in DOMAIN backend[name]

\* a push that transfers whatever backend.exists answered
NeedsTransfer_always(exists) == TRUE

\* `if not backend.exists(hexdigest)`: push transfers the object
NeedsTransfer(exists) == ~exists

\* a command ends with an uncaught exception
Crash(c, what, sha) ==
    /\ pc' = [pc EXCEPT ![c] = "crashed"]
    /\ todo' = [todo EXCEPT ![c] = <<>>]
    /\ outcome' = [outcome EXCEPT ![c][sha] = what]

\* this entry of the loop is finished
Done(c, what, sha) ==
    /\ pc' = [pc EXCEPT ![c] = IF pc[c] = "push_xfer" THEN "push_file" ELSE pc[c]]
    /\ todo' = [todo EXCEPT ![c] = Tail(todo[c])]
    /\ outcome' = [outcome EXCEPT ![c][sha] = what]

(***************************************************************************)
(* push                                                                    *)
(***************************************************************************)
push_begin(c) == \E matched \in SUBSET Paths : Begin(c, "push_file", matched)

\* one pass of push's loop, up to the transfer
push_entry(c) ==
    /\ pc[c] = "push_file" /\ todo[c] # <<>>
    /\ LET e == Head(todo[c])
           entries == notes_show(c, e.sha)
           name == backendCfg[c]
           hexdigest == ShowParts(e.blob)[3]
           key == object_filename(ShowParts(e.blob)[2], hexdigest)
       IN  IF HasUploadFor(entries, name)
           THEN \* break: the else clause of the for loop is skipped
                /\ Done(c, "skipped", e.sha)
                /\ UNCHANGED <<commits, head, calls>>
           ELSE IF ~IsPointer(e.blob)
           THEN /\ Done(c, "notpointer", e.sha)
                /\ UNCHANGED <<commits, head, calls>>
           ELSE /\ calls' = [calls EXCEPT ![c] = Append(@,
                       Call("exists", hexdigest, <<>>,
                            IF backend_exists(name, hexdigest) THEN "true" ELSE "false"))]
                /\ IF ~NeedsTransfer(backend_exists(name, hexdigest))
                   THEN \* no transfer, the entry is appended
                        /\ \E ts \in Times :
                               notes_append(c, e.sha, Entry(ts, ActionFor(c), name, AuthorOf(c)))
                        /\ Done(c, "recorded", e.sha)
                   ELSE IF key \notin DOMAIN store[c]
                   THEN \* open(object_filename(...)) raises IOError
                        /\ Crash(c, "failed", e.sha)
                        /\ UNCHANGED <<commits, head>>
                   ELSE /\ pc' = [pc EXCEPT ![c] = "push_xfer"]
                        /\ UNCHANGED <<commits, head, todo, outcome>>
    /\ UNCHANGED <<backend, files, opsLeft, config, others>>

\* backend.exists raises
push_exists_fail(c) ==
    /\ pc[c] = "push_file" /\ todo[c] # <<>>
    /\ LET e == Head(todo[c]) IN
         /\ ~HasUploadFor(notes_show(c, e.sha), backendCfg[c])
         /\ IsPointer(e.blob)
         /\ calls' = [calls EXCEPT ![c] =
                Append(@, Call("exists", ShowParts(e.blob)[3], <<>>, "raised"))]
         /\ Crash(c, "failed", e.sha)
    /\ UNCHANGED <<commits, head, backend, files, opsLeft, config, others>>

\* a push that never compresses
Payload_uncompressed(c, key) == store[c][key]

\* what push hands to backend.push: the stored object, compressed if the
\* rule says so
Payload(c, key) == IF compress[c] THEN Bz2Compress(store[c][key]) ELSE store[c][key]

\* backend.push returns, then the entry is appended
push_transfer(c) ==
    /\ pc[c] = "push_xfer"
    /\ LET e == Head(todo[c])
           name == backendCfg[c]
           hexdigest == ShowParts(e.blob)[3]
           key == object_filename(ShowParts(e.blob)[2], hexdigest)
       IN  /\ backend' = [backend EXCEPT ![name] = (hexdigest :> Payload(c, key)) @@ @]
           /\ calls' = [calls EXCEPT ![c] =
                  Append(@, Call("push", hexdigest, Payload(c, key), "done"))]
           /\ \E ts \in Times :
                  notes_append(c, e.sha, Entry(ts, ActionFor(c), name, AuthorOf(c)))
           /\ Done(c, "transferred", e.sha)
    /\ UNCHANGED <<files, opsLeft, config, others>>

\* a push that records the upload before it knows the transfer succeeded
push_transfer_fail_recorded(c) ==
    /\ pc[c] = "push_xfer"
    /\ LET e == Head(todo[c])
           hexdigest == ShowParts(e.blob)[3]
           key == object_filename(ShowParts(e.blob)[2], hexdigest)
       IN  /\ calls' = [calls EXCEPT ![c] =
                  Append(@, Call("push", hexdigest, Payload(c, key), "raised"))]
           /\ \E ts \in Times :
                  notes_append(c, e.sha, Entry(ts, ActionFor(c), backendCfg[c], AuthorOf(c)))
           /\ Crash(c, "failed", e.sha)
    /\ UNCHANGED <<backend, files, opsLeft, config, others>>

\* backend.push raises, or the process is killed during the transfer
push_transfer_fail(c) ==
    /\ pc[c] = "push_xfer"
    /\ LET e == Head(todo[c])
           hexdigest == ShowParts(e.blob)[3]
           key == object_filename(ShowParts(e.blob)[2], hexdigest)
       IN  /\ calls' = [calls EXCEPT ![c] =
                  Append(@, Call("push", hexdigest, Payload(c, key), "raised"))]
           /\ Crash(c, "failed", e.sha)
    /\ UNCHANGED <<commits, head, backend, files, opsLeft, config, others>>

\* the last lines of push: the ledger is pushed to origin; a rejection is
\* an uncaught GitCommandError
push_publish(c) ==
    /\ pc[c] = "push_file" /\ todo[c] = <<>>
    /\ IF PublishAccepted(c)
       THEN /\ head' = [head EXCEPT ![Origin] = head[c]]
            /\ pc' = [pc EXCEPT ![c] = "idle"]
       ELSE /\ pc' = [pc EXCEPT ![c] = "crashed"]
            /\ UNCHANGED head
    /\ UNCHANGED <<commits, backend, files, todo, calls, outcome, opsLeft, config, others>>

(***************************************************************************)
(* pull                                                                    *)
(***************************************************************************)
pull_begin(c) == \E matched \in SUBSET Paths : Begin(c, "pull_file", matched)

\* the entries pull works with: the note, or one assumed entry when the
\* object has no note and the working tree file is a pointer
PullEntries(c, e) ==
    IF notes_show(c, e.sha) # <<>> THEN notes_show(c, e.sha)
    ELSE IF is_bigstore_file(c, e.path)
    THEN <<Entry(0, ActionFor(c), backendCfg[c], "")>>
    ELSE <<>>

\* g().add(filename): git runs the clean filter on the file; when the
\* filter fails the file is staged as it is
git_add(c, filename, bytes) ==
    LET r == filter_clean(bytes, store[c], defaultHash[c]) IN
    /\ store' = [store EXCEPT ![c] = r.store]
    /\ index' = [index EXCEPT ![c][filename] = IF r.ok THEN r.out ELSE bytes]
    /\ staged' = [staged EXCEPT ![c] = @ \cup {filename}]

\* a pull that writes what the backend sent, whatever the entry says
PulledBytes_raw(action, data) == [ok |-> TRUE, out |-> data]

\* what pull writes into the working tree file: the bytes backend.pull
\* delivered, decompressed when the entry says upload-compressed
PulledBytes(action, data) ==
    IF action = "upload-compressed" THEN Bz2Decompress(data)
    ELSE [ok |-> TRUE, out |-> data]

\* a pull that never looks into the local object store
HasLocalObject_never(c, key) == FALSE

\* open(object_filename(hash_function_name, hexdigest)) does not raise
HasLocalObject(c, key) == key \in DOMAIN store[c]

\* a pull that records what it looked at
pull_notes_download(c, sha) ==
    notes_append(c, sha, Entry(9, "download", backendCfg[c], AuthorOf(c)))

\* the notes commands of pull's loop: it runs `notes show` only
pull_notes(c, sha) == UNCHANGED <<commits, head>>

\* one pass of pull's loop
pull_entry(c) ==
    /\ pc[c] = "pull_file" /\ todo[c] # <<>>
    /\ LET e == Head(todo[c])
           entries == PullEntries(c, e)
           hexdigest == ShowParts(e.blob)[3]
           key == object_filename(ShowParts(e.blob)[2], hexdigest)
       IN  IF entries = <<>>
           THEN /\ Done(c, "noentry", e.sha)
                /\ UNCHANGED <<files, calls>>
           ELSE IF entries[1] = BlankLine \/ Len(ShowParts(e.blob)) # 3
           THEN \* entry.split('\t') or the unpacking of g().show raises ValueError
                /\ Crash(c, "failed", e.sha)
                /\ UNCHANGED <<files, calls>>
           ELSE IF ~IsPointer(e.blob)
           THEN /\ Done(c, "notpointer", e.sha)
                /\ UNCHANGED <<files, calls>>
           ELSE IF HasLocalObject(c, key)
           THEN /\ Done(c, "local", e.sha)
                /\ UNCHANGED <<files, calls>>
           ELSE IF ~backend_exists(entries[1].backend, hexdigest)
           THEN /\ calls' = [calls EXCEPT ![c] = Append(@, Call("exists", hexdigest, <<>>, "false"))]
                /\ Done(c, "absent", e.sha)
                /\ UNCHANGED files
           ELSE LET data == backend[entries[1].backend][hexdigest]
                    plain == PulledBytes(entries[1].action, data)
                IN  /\ calls' = [calls EXCEPT ![c] = @ \o
                           << Call("exists", hexdigest, <<>>, "true"),
                              Call("pull", hexdigest, data, "done") >>]
                    /\ IF plain.ok
                       THEN /\ wt' = [wt EXCEPT ![c][e.path] = plain.out]
                            /\ git_add(c, e.path, plain.out)
                            /\ Done(c, "pulled", e.sha)
                       ELSE \* the decompressor raises on the first chunk,
                            \* after open(filename, 'wb') emptied the file
                            /\ wt' = [wt EXCEPT ![c][e.path] = <<>>]
                            /\ Crash(c, "failed", e.sha)
                            /\ UNCHANGED <<store, index, staged>>
    /\ pull_notes(c, Head(todo[c]).sha)
    /\ UNCHANGED <<backend, opsLeft, config, others>>

\* backend.exists or backend.pull raises, or the process is killed during
\* the download: the plain download writes into the file it opened with
\* 'wb', the compressed one into a temporary file
pull_backend_fail(c) ==
    /\ pc[c] = "pull_file" /\ todo[c] # <<>>
    /\ LET e == Head(todo[c])
           entries == PullEntries(c, e)
           hexdigest == ShowParts(e.blob)[3]
           key == object_filename(ShowParts(e.blob)[2], hexdigest)
       IN  /\ entries # <<>>
           /\ entries[1] # BlankLine
           /\ IsPointer(e.blob)
           /\ key \notin DOMAIN store[c]
           /\ \/ /\ calls' = [calls EXCEPT ![c] =
                         Append(@, Call("exists", hexdigest, <<>>, "raised"))]
                 /\ UNCHANGED wt
              \/ /\ backend_exists(entries[1].backend, hexdigest)
                 /\ LET data == backend[entries[1].backend][hexdigest] IN
                      /\ calls' = [calls EXCEPT ![c] = @ \o
                             << Call("exists", hexdigest, <<>>, "true"),
                                Call("pull", hexdigest, data, "raised") >>]
                      /\ IF entries[1].action = "upload-compressed"
                         THEN UNCHANGED wt
                         ELSE \E k \in 0..(Len(data) - 1) :
                                  wt' = [wt EXCEPT ![c][e.path] = SubSeq(data, 1, k)]
           /\ Crash(c, "failed", e.sha)
    /\ UNCHANGED <<commits, head, backend, store, index, staged, opsLeft, config, others>>

\* a pull for which a rejected publish is an error, as it is for push
pull_publish_fatal(c) ==
    /\ pc[c] = "pull_file" /\ todo[c] = <<>>
    /\ IF PublishAccepted(c)
       THEN /\ head' = [head EXCEPT ![Origin] = head[c]]
            /\ pc' = [pc EXCEPT ![c] = "idle"]
       ELSE /\ pc' = [pc EXCEPT ![c] = "crashed"]
            /\ UNCHANGED head
    /\ UNCHANGED <<commits, backend, files, todo, calls, outcome, opsLeft, config, others>>

\* the last lines of pull: a rejected publish is only reported
pull_publish(c) ==
    /\ pc[c] = "pull_file" /\ todo[c] = <<>>
    /\ IF PublishAccepted(c)
       THEN head' = [head EXCEPT ![Origin] = head[c]]
       ELSE UNCHANGED head
    /\ pc' = [pc EXCEPT ![c] = "idle"]
    /\ UNCHANGED <<commits, backend, files, todo, calls, outcome, opsLeft, config, others>>

(***************************************************************************)
(* fetch                                                                   *)
(***************************************************************************)
fetch_begin(c) == Begin(c, "fetch_repo", {})

\* pull_metadata(repository), the repository being the other clone
fetch_repository(c) ==
    /\ pc[c] = "fetch_repo"
    /\ \E r \in Clones \ {c} :
         \E b \in BaseChoices(head[c], head[r]) : pull_metadata(c, r, b)
    /\ pc' = [pc EXCEPT ![c] = "fetch_pub"]
    /\ UNCHANGED <<backend, files, todo, calls, outcome, opsLeft, config, others>>

fetch_publish(c) ==
    /\ pc[c] = "fetch_pub"
    /\ IF PublishAccepted(c)
       THEN /\ head' = [head EXCEPT ![Origin] = head[c]]
            /\ pc' = [pc EXCEPT ![c] = "idle"]
       ELSE /\ pc' = [pc EXCEPT ![c] = "crashed"]
            /\ UNCHANGED head
    /\ UNCHANGED <<commits, backend, files, todo, calls, outcome, opsLeft, config, others>>

Next ==
    \E c \in Clones :
        \/ push_begin(c)
        \/ push_entry(c)
        \/ push_exists_fail(c)
        \/ push_transfer(c)
        \/ push_transfer_fail(c)
        \/ push_publish(c)
        \/ pull_begin(c)
        \/ pull_entry(c)
        \/ pull_backend_fail(c)
        \/ pull_publish(c)
        \/ fetch_begin(c)
        \/ fetch_repository(c)
        \/ fetch_publish(c)

Spec == Init /\ [][Next]_vars

SpecBatch == InitBatch /\ [][Next]_vars

(***************************************************************************)
(* What the claims speak of.                                               *)
(***************************************************************************)
Repos == {Origin} \cup Clones

\* the hexdigest line and the object key of a tracked pointer
DigestOf(sha) == <<HexDigest("sha1", ContentOf(sha))>>
KeyOf(sha)    == << <<AlgTok("sha1")>>, DigestOf(sha) >>

\* the entries of the ledger of repository r for an object
Ledger(r, sha) == { l \in Range(Notes(r)[sha]) : l # BlankLine }

\* the number of entry lines of that ledger
EntryCount(r, sha) == Len(SelectSeq(Notes(r)[sha], LAMBDA l : l # BlankLine))

\* the ledger of clone c records an upload of the object to c's active backend
UploadOnRecord(c, sha) ==
    \E l \in Ledger(c, sha) :
        l.action \in {"upload", "upload-compressed"} /\ l.backend = backendCfg[c]

\* the backend.push calls of the command clone c is running
PushCalls(c) == SelectSeq(calls[c], LAMBDA k : k.op = "push")

\* clone c takes the step
Stepped(c) == <<pc[c], todo[c]>>' # <<pc[c], todo[c]>>

\* clone c is about to visit, in push, an object with an upload on record
AtRecorded(c) ==
    /\ pc[c] = "push_file" /\ todo[c] # <<>>
    /\ UploadOnRecord(c, Head(todo[c]).sha)

C2_FirstPush ==
    \A c \in Clones : \A i \in 1..Len(Tracked) :
        LET e == Tracked[i]
            mine == { l \in Ledger(c, e.sha) : l.backend = backendCfg[c] }
            sent == IF compress[c] THEN <<BZ>> \o ContentOf(e.sha) ELSE ContentOf(e.sha)
        IN  outcome[c][e.sha] = "transferred" =>
              /\ \E k \in 1..Len(calls[c]) :
                    /\ k > 1
                    /\ calls[c][k - 1] = Call("exists", DigestOf(e.sha), <<>>, "false")
                    /\ calls[c][k] = Call("push", DigestOf(e.sha), sent, "done")
                    /\ \A j \in 1..Len(calls[c]) :
                          (calls[c][j].op = "push" /\ calls[c][j].dg = DigestOf(e.sha)) => j = k
              /\ store[c][KeyOf(e.sha)] = ContentOf(e.sha)
              /\ Cardinality(mine) = 1
              /\ \A l \in mine :
                    /\ l.action = IF compress[c] THEN "upload-compressed" ELSE "upload"
                    /\ l.author = AuthorOf(c)

\* a first push under the compressed rule has transferred and recorded
C2_Witness ==
    \E c \in Clones :
        /\ outcome[c]["sha_big"] = "transferred"
        /\ compress[c]
        /\ backend[backendCfg[c]][DigestOf("sha_big")] = <<BZ>> \o BigContent
        /\ EntryCount(c, "sha_big") = 1

(***************************************************************************)
(* C3.  The cat_sort_uniq merge is associative, commutative and            *)
(* idempotent on the entries of the logs: for any logs A, B, C,            *)
(* merge(A, merge(B, C)) = merge(merge(A, B), C), merge(A, B) = merge(B, A)*)
(* and merge(A, A) = A, compared as sets of entry lines.                   *)
(***************************************************************************)
C3_MergeAlgebra ==
    mpc = "merged" =>
        /\ EntrySet(mOut.a_bc) = EntrySet(mOut.ab_c)
        /\ EntrySet(mOut.ab) = EntrySet(mOut.ba)
        /\ EntrySet(mOut.aa) = EntrySet(mA)
        /\ EntrySet(mOut.ab) = EntrySet(mA) \cup EntrySet(mB)

\* three different, unsorted logs with a repeated entry and a blank line
C3_Witness ==
    /\ mpc = "merged"
    /\ mA = <<Entry(10, "upload", "s3", "alice"), BlankLine,
              Entry(9, "upload", "s3", "alice")>>
    /\ mB = <<Entry(9, "upload-compressed", "s3", "bob"),
              Entry(9, "upload", "s3", "alice")>>
    /\ mC = <<Entry(10, "upload", "s3", "alice")>>
    /\ mOut.ab = <<Entry(10, "upload", "s3", "alice"),
                   Entry(9, "upload", "s3", "alice"),
                   Entry(9, "upload-compressed", "s3", "bob")>>

(***************************************************************************)
(* C4.  The ledger is append-only: in origin and in every clone, whatever  *)
(* push, pull, fetch or metadata merge runs, every entry line present for  *)
(* an object is still present for it afterwards, with the same fields.     *)
(***************************************************************************)
C4_AppendOnly ==
    [][\A r \in Repos : \A x \in Shas : Ledger(r, x) \subseteq Ledger(r, x)']_vars

\* origin and a clone hold the merged entries of both authors, sorted as lines
C4_Witness ==
    \E c \in Clones :
        /\ Notes(c)["sha_big"] = << Entry(10, "upload", "s3", "bob"),
                                    Entry(9, "upload", "s3", "alice") >>
        /\ Notes(Origin) = Notes(c)

(***************************************************************************)
(* C5.  A ledger entry is proof of remote presence: in every state, every  *)
(* entry with action upload or upload-compressed and backend b for object  *)
(* X implies that backend b holds X's digest; and a step in which          *)
(* backend.push fails or is interrupted appends no ledger entry.           *)
(***************************************************************************)
C5_EntryImpliesObject ==
    \A r \in Repos : \A x \in Shas : \A l \in Ledger(r, x) :
        l.action \in {"upload", "upload-compressed"} =>
            DigestOf(x) \in DOMAIN backend[l.backend]

C5_FailedTransferAppendsNothing ==
    \A c \in Clones :
        (/\ Len(calls'[c]) = Len(calls[c]) + 1
         /\ calls'[c][Len(calls'[c])].op = "push"
         /\ calls'[c][Len(calls'[c])].res = "raised")
        => /\ \A r \in Repos : Notes(r)' = Notes(r)
           /\ backend' = backend

C5_ProofOfPresence ==
    []C5_EntryImpliesObject /\ [][C5_FailedTransferAppendsNothing]_vars

\* a transfer has failed and left neither an entry nor an object
C5_Witness ==
    \E c \in Clones :
        /\ pc[c] = "crashed"
        /\ calls[c] # <<>>
        /\ calls[c][Len(calls[c])].op = "push"
        /\ calls[c][Len(calls[c])].res = "raised"
        /\ \A r \in Repos : Ledger(r, "sha_big") = {}
        /\ DigestOf("sha_big") \notin DOMAIN backend[backendCfg[c]]

(***************************************************************************)
(* C6.  No redundant transfer: with no upload of X to the active backend   *)
(* on record and backend.exists true, push makes no backend.push call for  *)
(* X and appends one new entry for X; and no command calls backend.push    *)
(* for a digest for which backend.exists answered true.                    *)
(***************************************************************************)
C6_NoPushAfterExists ==
    \A c \in Clones : \A k \in 1..Len(calls[c]) :
        calls[c][k].op = "push" =>
            ~ \E j \in 1..(k - 1) :
                /\ calls[c][j].op = "exists"
                /\ calls[c][j].dg = calls[c][k].dg
                /\ calls[c][j].res = "true"

C6_ExistingIsRecorded ==
    \A c \in Clones : \A x \in Shas :
        (/\ pc[c] = "push_file" /\ todo[c] # <<>>
         /\ x = Head(todo[c]).sha
         /\ ~UploadOnRecord(c, x)
         /\ Len(calls'[c]) = Len(calls[c]) + 1
         /\ calls'[c][Len(calls'[c])] = Call("exists", DigestOf(x), <<>>, "true"))
        => /\ pc'[c] = "push_file"
           /\ todo'[c] = Tail(todo[c])
           /\ PushCalls(c)' = PushCalls(c)
           /\ backend' = backend
           /\ EntryCount(c, x)' = EntryCount(c, x) + 1
           /\ \E l \in Ledger(c, x)' \ Ledger(c, x) :
                  l.backend = backendCfg[c] /\ l.author = AuthorOf(c)

C6_NoRedundantTransfer ==
    []C6_NoPushAfterExists /\ [][C6_ExistingIsRecorded]_vars

\* a clone that never transferred has recorded an object the backend had
C6_Witness ==
    \E c \in Clones :
        /\ outcome[c]["sha_big"] = "recorded"
        /\ calls[c] = << Call("exists", DigestOf("sha_big"), <<>>, "true") >>
        /\ \E l \in Ledger(c, "sha_big") : l.author = AuthorOf(c)

(***************************************************************************)
(* C7.  Pull appends no ledger entry: from the metadata merge at the start *)
(* of pull to its end, no step changes the ledger of the pulling clone,    *)
(* and the only write to origin's ledger by pull is the final publish.     *)
(***************************************************************************)
C7_PullAppendsNothing ==
    [][\A c \in Clones :
          (pc[c] = "pull_file" /\ Stepped(c)) =>
              /\ Notes(c)' = Notes(c)
              /\ head'[c] = head[c]
              /\ head'[Origin] # head[Origin] =>
                     (todo[c] = <<>> /\ head'[Origin] = head[c])]_vars

\* a pull that downloaded and staged a file has finished
C7_Witness ==
    \E c \in Clones :
        /\ outcome[c]["sha_big"] = "pulled"
        /\ pc[c] = "idle"
        /\ "big.bin" \in staged[c]

(***************************************************************************)
(* C8.  Pull materializes: when a clone that never pushed pulls an object  *)
(* that its store lacks, the merged ledger holding the other clone's       *)
(* upload entry and the backend reporting existence, the working tree file *)
(* then holds the bytes the other clone cleaned and pushed, and the path   *)
(* is staged.                                                              *)
(***************************************************************************)
NeverPushed(c) ==
    \A x \in Shas : \A l \in Ledger(c, x) : l.author # AuthorOf(c)

C8_PullMaterializes ==
    \A c \in Clones : \A i \in 1..Len(Tracked) :
        LET e == Tracked[i] IN
        (/\ outcome[c][e.sha] = "pulled"
         /\ NeverPushed(c)
         /\ \E l \in Ledger(c, e.sha) :
                l.author # AuthorOf(c) /\ l.action \in {"upload", "upload-compressed"})
        => /\ wt[c][e.path] = ContentOf(e.sha)
           /\ e.path \in staged[c]

\* the second clone pulled what the first pushed compressed
C8_Witness ==
    /\ outcome[2]["sha_big"] = "pulled"
    /\ NeverPushed(2)
    /\ Notes(2)["sha_big"] = << Entry(9, "upload-compressed", "s3", "alice") >>
    /\ wt[2]["big.bin"] = BigContent
    /\ "big.bin" \in staged[2]

C10_RoundTrip ==
    /\ fpc # "crashed"
    /\ fpc = "smudged" => fOut = fIn

(***************************************************************************)
(* C11.  Clean is idempotent: filter_clean run on what filter_clean wrote  *)
(* writes the same bytes again; and a stream whose first line is the magic *)
(* marker is copied to the output verbatim, and no stored object is        *)
(* created or changed.                                                     *)
(***************************************************************************)
C11_CleanIdempotent ==
    [][/\ (fpc = "cleaned" /\ fpc' \in {"recleaned", "crashed_again"}) =>
              (fpc' = "recleaned" /\ fAgain' = fMid /\ fStore' = fStore)
       /\ (fpc = "start" /\ fpc' # fpc /\ fIn # <<>> /\ Lines(fIn)[1] = <<MAGIC, NL>>) =>
              (fpc' = "cleaned" /\ fMid' = fIn /\ fStore' = fStore)]_vars

\* content was cleaned into a pointer, and the pointer cleaned again
C11_Witness ==
    /\ fpc = "recleaned"
    /\ fIn = <<TXT, NL, TXT>>
    /\ fMid = PointerRecord(fHash, HexDigest(fHash, fIn))
    /\ fAgain = fMid
    /\ DOMAIN fStore = { object_filename(<<AlgTok(fHash)>>, <<HexDigest(fHash, fIn)>>) }

(***************************************************************************)
(* C13.  Smudge never fails on a missing object: given a pointer record    *)
(* whose object is not in the local store, filter_smudge ends normally,    *)
(* writes exactly the three pointer lines it read, makes no backend call   *)
(* and writes nothing to the object store.                                 *)
(***************************************************************************)
MissingObjectRecord(input, st) ==
    /\ Len(Lines(input)) >= 3
    /\ Lines(input)[1] = <<MAGIC, NL>>
    /\ object_filename(StripLast(Lines(input)[2]), StripLast(Lines(input)[3]))
           \notin DOMAIN st

C13_SmudgeMissingObject ==
    [][(fpc = "cleaned" /\ fpc' \in {"smudged", "crashed"}
           /\ MissingObjectRecord(fMid, fStore)) =>
          /\ fpc' = "smudged"
          /\ fOut' = Lines(fMid)[1] \o Lines(fMid)[2] \o Lines(fMid)[3]
          /\ fStore' = fStore
          /\ backend' = backend /\ calls' = calls]_vars

\* a pointer record without its object went through smudge unchanged
C13_Witness ==
    /\ fpc = "smudged"
    /\ fMid = <<MAGIC, NL, TXT, NL, TXT, NL>>
    /\ fStore = <<>>
    /\ fOut = fMid

(***************************************************************************)
(* C12.  Write-once content addressing: cleaning the same bytes again      *)
(* ends normally and writes the same pointer record, and once the object   *)
(* has been fully written the bytes at its path are never changed or       *)
(* removed: no later step leaves the path absent or with other bytes.      *)
(***************************************************************************)
C12_SamePointer ==
    \A i \in 1..Len(oOut) : oOut[i] = oOut[1]

C12_NeverRewritten ==
    (oWritten /\ oPath = [exists |-> TRUE, bytes |-> oIn]) => oPath' = oPath

C12_WriteOnce ==
    []C12_SamePointer /\ [][C12_NeverRewritten]_vars

(***************************************************************************)
(* C16.  Atomic object placement: at every instant the object's final path *)
(* is absent or holds the complete content, also when filter_clean is      *)
(* terminated midway, and a concurrent reader never finds a file there     *)
(* that holds only part of the content.                                    *)
(***************************************************************************)
C16_AtomicPlacement ==
    /\ opc # "idle" => (oPath.exists => oPath.bytes = oIn)
    /\ opc # "idle" => (oSeen.exists => oSeen.bytes = oIn)

(***************************************************************************)
(* C14.  Partial-failure tolerance: when a backend call (exists, push or   *)
(* pull) fails for one file of a push or pull over several files, that     *)
(* file gets no ledger entry and the command goes on with the files that   *)
(* remain instead of ending.                                               *)
(***************************************************************************)
CallRaised(c) ==
    /\ Len(calls'[c]) > Len(calls[c])
    /\ calls'[c][Len(calls'[c])].res = "raised"

C14_PartialFailure ==
    [][\A c \in Clones :
          (CallRaised(c) /\ Len(todo[c]) > 1) =>
              /\ pc'[c] \in {"push_file", "pull_file"}
              /\ todo'[c] = Tail(todo[c])
              /\ Notes(c)' = Notes(c)]_vars

(***************************************************************************)
(* C15.  Publish rejection is not fatal to pull: when origin rejects the   *)
(* publish at the end of pull, pull still ends normally, the files it      *)
(* wrote and staged stay as they are, and the ledgers are unchanged.       *)
(***************************************************************************)
C15_RejectedPublishNotFatal ==
    [][\A c \in Clones :
          (pc[c] = "pull_file" /\ todo[c] = <<>> /\ Stepped(c) /\ ~PublishAccepted(c)) =>
              /\ pc'[c] = "idle"
              /\ <<store, wt, index, staged>>' = <<store, wt, index, staged>>
              /\ outcome' = outcome
              /\ head' = head /\ commits' = commits]_vars

\* clone 2 pulled and staged the file during its only command, and its
\* publish met the ledger that clone 1 had published meanwhile
C15_Witness ==
    /\ pc[2] = "idle" /\ opsLeft[2] = MaxOps - 1
    /\ outcome[2]["sha_big"] = "pulled"
    /\ "big.bin" \in staged[2]
    /\ wt[2]["big.bin"] = BigContent
    /\ head[2] = 2
    /\ head[Origin] = 3

(***************************************************************************)
(* C17.  Authoritative entry selection: in push and in pull the entry that *)
(* decides for an object is the first one whose action is upload or        *)
(* upload-compressed and whose backend is the active backend; when the     *)
(* ledger has no such entry, push goes on to ask the backend and pull      *)
(* makes no backend call and writes no file, whatever entries naming       *)
(* another backend say.                                                    *)
(***************************************************************************)
MatchesActive(c, entries) ==
    \E i \in 1..Len(entries) :
        /\ entries[i] # BlankLine
        /\ entries[i].action \in {"upload", "upload-compressed"}
        /\ entries[i].backend = backendCfg[c]

C17_AuthoritativeEntry ==
    [][\A c \in Clones :
          /\ (pc[c] = "push_file" /\ todo[c] # <<>> /\ Stepped(c)
                  /\ MatchesActive(c, notes_show(c, Head(todo[c]).sha))) =>
                 (calls'[c] = calls[c] /\ backend' = backend)
          /\ (pc[c] = "pull_file" /\ todo[c] # <<>> /\ Stepped(c)
                  /\ ~MatchesActive(c, PullEntries(c, Head(todo[c])))) =>
                 (calls'[c] = calls[c] /\ wt' = wt /\ staged' = staged)]_vars

(***************************************************************************)
(* C18.  Lock-free convergence: entries appended by two clones to          *)
(* divergent ledgers are never lost by a merge; after the merge from       *)
(* origin that starts a command the clone's publish is a fast-forward, so  *)
(* a rejected clone publishes by running again; and once both clones have  *)
(* merged and published, origin and both clones hold the same ledger,      *)
(* which contains every entry either clone ever appended.                  *)
(***************************************************************************)
AllAppended(x) ==
    UNION { EntrySet(commits[i].notes[x]) : i \in 1..Len(commits) }

C18_MergeKeepsEntries ==
    \A r \in Repos : \A x \in Shas : \A i \in Anc(head[r]) :
        EntrySet(commits[i].notes[x]) \subseteq Ledger(r, x)

C18_Converged ==
    (\A c \in Clones : head[Origin] \in Anc(head[c]) /\ head[c] \in Anc(head[Origin])) =>
        \A x \in Shas : \A c \in Clones :
            /\ Notes(c)[x] = Notes(Origin)[x]
            /\ AllAppended(x) \subseteq Ledger(Origin, x)

C18_RetryPublishes ==
    \A c \in Clones :
        (pc[c] \in {"idle", "crashed"} /\ Stepped(c)) => PublishAccepted(c)'

C18_LockFreeConvergence ==
    [](C18_MergeKeepsEntries /\ C18_Converged) /\ [][C18_RetryPublishes]_vars

\* both clones appended to divergent ledgers; one was rejected, merged and
\* published, and now origin and both clones hold both entries
C18_Witness ==
    /\ head[1] = head[Origin] /\ head[2] = head[Origin]
    /\ \E i, j \in Anc(head[Origin]) :
          /\ i \notin Anc(j) /\ j \notin Anc(i)
          /\ \E l \in EntrySet(commits[i].notes["sha_big"]) : l.author = "alice"
          /\ \E l \in EntrySet(commits[j].notes["sha_big"]) : l.author = "bob"
    /\ \E l \in Ledger(Origin, "sha_big") : l.author = "alice"
    /\ \E l \in Ledger(Origin, "sha_big") : l.author = "bob"
    /\ \E c \in Clones : opsLeft[c] = 0

(***************************************************************************)
(* C19.  Metadata merge with no remote counterpart: when the remote has no *)
(* ledger ref, pull_metadata ends without error, leaves every entry of the *)
(* local ledger as it was, and leaves the clone with a local ledger ref    *)
(* that the following publish can push.                                    *)
(***************************************************************************)
MergesFromNothing(c) ==
    \/ pc[c] \in {"idle", "crashed"} /\ Stepped(c) /\ head[Origin] = 0
    \/ pc[c] = "fetch_repo" /\ Stepped(c) /\ \A r \in Clones \ {c} : head[r] = 0

TsSorted(note) ==
    \A i, j \in 1..Len(note) :
        (i < j /\ note[i] # BlankLine /\ note[j] # BlankLine) => note[i].ts <= note[j].ts

C20_TimestampOrder ==
    [][\A c \in Clones : \A x \in Shas :
          (pc[c] \in {"idle", "crashed", "fetch_repo"} /\ Stepped(c)) =>
              TsSorted(Notes(c)[x])']_vars

(***************************************************************************)
(* C21.  Pull leaves present objects alone: for a tracked pointer whose    *)
(* object is in the local object store, pull calls neither backend.exists  *)
(* nor backend.pull, does not write the working tree file and does not     *)
(* stage it.                                                               *)
(***************************************************************************)
C21_PresentObjectUntouched ==
    [][\A c \in Clones :
          (/\ pc[c] = "pull_file" /\ todo[c] # <<>> /\ Stepped(c)
           /\ IsPointer(Head(todo[c]).blob)
           /\ object_filename(ShowParts(Head(todo[c]).blob)[2],
                              ShowParts(Head(todo[c]).blob)[3]) \in DOMAIN store[c]) =>
              /\ calls'[c] = calls[c]
              /\ wt' = wt /\ index' = index /\ staged' = staged
              /\ store' = store /\ backend' = backend
              /\ pc'[c] = "pull_file"]_vars

\* a pull went past an object that has an upload entry and is in the
\* local store, without a call
C21_Witness ==
    \E c \in Clones :
        /\ outcome[c]["sha_big"] = "local"
        /\ UploadOnRecord(c, "sha_big")
        /\ KeyOf("sha_big") \in DOMAIN store[c]
        /\ calls[c] = <<>>
        /\ staged[c] = {}

(***************************************************************************)
(* C22.  Pull is idempotent with respect to transfers: after pull has      *)
(* downloaded and staged an object, the local object store holds it under  *)
(* the hash name and digest of its pointer, whatever the default hash      *)
(* function of the clone is, and a repeated pull of the staged file makes  *)
(* no backend.pull call.                                                   *)
(***************************************************************************)
PullCalls(c) == SelectSeq(calls[c], LAMBDA k : k.op = "pull")

C22_PulledIsStored ==
    \A c \in Clones : \A x \in Shas :
        outcome[c][x] = "pulled" =>
            /\ KeyOf(x) \in DOMAIN store[c]
            /\ store[c][KeyOf(x)] = ContentOf(x)

C22_NoSecondDownload ==
    \A c \in Clones :
        (/\ pc[c] = "pull_file" /\ todo[c] # <<>> /\ Stepped(c)
         /\ Head(todo[c]).path \in staged[c]) =>
            PullCalls(c)' = PullCalls(c)

C22_PullIdempotent ==
    []C22_PulledIsStored /\ [][C22_NoSecondDownload]_vars

(***************************************************************************)
(* C23.  Recorded action matches the remote format: in every reachable     *)
(* state, for every ledger and every backend that holds the object, the    *)
(* first upload or upload-compressed entry naming that backend says        *)
(* upload-compressed exactly when the bytes the backend holds are the bz2  *)
(* form; so pull never fails to decompress and never writes compressed     *)
(* bytes into the working tree as content.                                 *)
(***************************************************************************)
FirstUploadOn(note, b) ==
    LET idx == { i \in 1..Len(note) :
                    /\ note[i] # BlankLine
                    /\ note[i].action \in {"upload", "upload-compressed"}
                    /\ note[i].backend = b }
    IN  IF idx = {} THEN BlankLine
        ELSE note[CHOOSE i \in idx : \A j \in idx : i <= j]

C23_ActionMatchesFormat ==
    /\ \A r \in Repos : \A x \in Shas : \A b \in Backends :
          (FirstUploadOn(Notes(r)[x], b) # BlankLine
              /\ DigestOf(x) \in DOMAIN backend[b]) =>
             (FirstUploadOn(Notes(r)[x], b).action = "upload-compressed"
                 <=> backend[b][DigestOf(x)] = Bz2Compress(ContentOf(x)))
    /\ \A c \in Clones : \A i \in 1..Len(Tracked) :
          /\ wt[c][Tracked[i].path] # Bz2Compress(ContentOf(Tracked[i].sha))
          /\ outcome[c][Tracked[i].sha] = "pulled" =>
                 wt[c][Tracked[i].path] = ContentOf(Tracked[i].sha)

====
